---- MODULE Spec2Model ----
(***************************************************************************)
(* Model of labs/02_neural_recsys/                                         *)
(* Explicit_Feedback_Neural_Recommender_System.ipynb: the notebook's cells *)
(* as steps of a kernel session, and the functions the cells define        *)
(* (recommend, euclidean_distances, most_similar) as operators.            *)
(*                                                                         *)
(* Library calls are modelled by their contract: read_csv yields some      *)
(* table, train_test_split some shuffled split, model.fit some trained     *)
(* parameters, np.argsort some ascending order (ties in any order).        *)
(***************************************************************************)
EXTENDS Integers, Sequences, FiniteSets, TLC

\* ---------------------------------------------------------------- bounds
MaxUser == 3          \* user ids of the ratings file are 1..MaxUser
NumItems == 4         \* rows of the item metadata file, indexed 1..NumItems
MaxRows == 3          \* the ratings file of a notebook run has 2..MaxRows rows
SplitMaxRows == 5     \* train_test_split is tried on tables of 1..SplitMaxRows rows
RecoMaxRows == 2      \* recommend is tried on every table of 1..RecoMaxRows rows
MaxSeed == 1          \* random initialisations / training outcomes 0..MaxSeed
MaxScore == 2         \* a model predicts a rating in 1..MaxScore
MaxTopN == 3          \* top_n arguments tried are -MaxTopN..MaxTopN
MaxRuns == 2          \* the kernel is restarted at most MaxRuns times

\* ------------------------------------------------------ program constants
RecoUser == 3         \* recommend(3)
MaxRating == 5        \* a rating from 1 to 5 stars
TestFifth == 5        \* test_size=0.2 is one row in five
SimTopNDefault == 10  \* most_similar(idx, top_n=10)
RecoTopNDefault == 10 \* recommend(user_id, top_n=10)
SimIdx == 181         \* most_similar(181)

VARIABLES
    pc,               \* the next cell of the notebook to execute
    runs,             \* number of kernel restarts so far
    zip_file,         \* ml-100k.zip on disk: "absent", "partial" or "ok"
    folder,           \* TRUE iff the folder ml-100k exists
    setup_log,        \* what the last execution of the setup cell did
    all_ratings,      \* the ratings table, a sequence of rows
    max_user_id, max_item_id,
    split,            \* ratings_train, ratings_test and the six series
    model,            \* the object bound to the global name model
    weights,          \* model.get_weights()
    embeddings,       \* user_embeddings, item_embeddings
    reco,             \* the last call of recommend: arguments, predict call, result
    sim               \* the last call of euclidean_distances / most_similar

vars == <<pc, runs, zip_file, folder, setup_log, all_ratings, max_user_id,
          max_item_id, split, model, weights, embeddings, reco, sim>>

\* ------------------------------------------------------------- utilities
Range(s) == {s[k] : k \in DOMAIN s}

Max(S) == CHOOSE m \in S : \A x \in S : x <= m

Min2(a, b) == IF a <= b THEN a ELSE b

\* python range(a, b) as a sequence: a, a+1, ..., b-1
PyRange(a, b) == [k \in 1..(IF b > a THEN b - a ELSE 0) |-> a + k - 1]

\* permutations of 1..n, as sequences
Perms(n) == {p \in [1..n -> 1..n] : \A a, b \in 1..n : a # b => p[a] # p[b]}

\* ------------------------------------------------------------ input data
Users == 1..MaxUser
Items == 1..NumItems
Ratings == {1, MaxRating}
Scores == 1..MaxScore
Seeds == 0..MaxSeed

\* a line of u.data (the timestamp column is never read)
Rows == [user_id : Users, item_id : Items, rating : Ratings]

\* every table of 1..n rows
RatingTables(n) == UNION {[1..m -> Rows] : m \in 1..n}

\* a table of n rows written out from a seed
SampleTable(n, s) ==
    [k \in 1..n |-> [user_id |-> 1 + ((s + k) % MaxUser),
                     item_id |-> 1 + ((s * k + k) % NumItems),
                     rating  |-> IF (s + k) % 2 = 0 THEN 1 ELSE MaxRating]]

SampleTables(lo, hi) == {SampleTable(n, s) : n \in lo..hi, s \in Seeds}

\* items["name"][i]: the items frame is indexed by the movie id, 1..NumItems
\* (items["name"][1] is "the first item name"); distinct movies, distinct names
ItemsName(i) == <<"movie", i>>

\* the index of the items frame; a lookup of another label raises KeyError
ItemsIndex == Items

\* ------------------------------------------------------------ the models
\* an embedding vector (embedding_size is cut down to 2 components of 0..1)
Vec(k) == <<k % 2, (k \div 2) % 2>>

EmbVecs == {<<a, b>> : a, b \in 0..1}

\* the values a table of `rows` vectors takes from a seed
EmbValues(rows, seed) == [r \in 0..(rows - 1) |-> Vec(r + seed)]

\* the ratings a model with the parameters of a seed predicts
PredTable(seed) == [u \in Users |-> [i \in Items |-> 1 + ((seed * i + u) % MaxScore)]]

\* Embedding(output_dim=output_dim, input_dim=input_dim, name=name):
\* one weight array of shape (input_dim, output_dim), row i is the vector of
\* id i (the values followed are the first two components of each row)
Embedding(name, input_dim, output_dim, seed) ==
    [name |-> name, kind |-> "Embedding",
     weights |-> <<[layer |-> name, rows |-> input_dim,
                    shape |-> <<input_dim, output_dim>>,
                    W |-> EmbValues(input_dim, seed)]>>]

\* Dense(units) applied to an input of width input_width: a kernel of shape
\* (input_width, units) and a bias of shape (units,); values are not followed
Dense(name, input_width, units) ==
    [name |-> name, kind |-> "Dense",
     weights |-> <<[layer |-> name, rows |-> input_width,
                    shape |-> <<input_width, units>>, W |-> <<>>],
                   [layer |-> name, rows |-> units,
                    shape |-> <<units>>, W |-> <<>>]>>]

\* the first model: dot product of the two embeddings
MFModel(maxU, maxI, seed) ==
    [kind |-> "mf", inputs |-> <<"user", "item">>,
     layers |-> <<Embedding("user_embedding", maxU + 1, 30, seed),
                  Embedding("item_embedding", maxI + 1, 30, seed)>>,
     out_units |-> 1, fitted |-> FALSE, table |-> PredTable(seed)]

\* the deep model of the exercise cell: Dense(64), Dense(2)
DeepModel(maxU, maxI, seed) ==
    [kind |-> "deep", inputs |-> <<"user", "item">>,
     layers |-> <<Embedding("user_embedding", maxU + 1, 30, seed),
                  Embedding("item_embedding", maxI + 1, 30, seed),
                  Dense("dense_1", 30 + 30, 64), Dense("dense_2", 64, 2)>>,
     out_units |-> 2, fitted |-> FALSE, table |-> PredTable(seed)]

\* a build cell that wires only the two id inputs into the model
HybridModelTwoInputs(maxU, maxI, seed) ==
    [kind |-> "deep", inputs |-> <<"user", "item">>,
     layers |-> <<Embedding("user_embedding", maxU + 1, 32, seed),
                  Embedding("item_embedding", maxI + 1, 32, seed),
                  Dense("dense_1", 32 + 32, 64), Dense("dense_2", 64, 32),
                  Dense("dense_3", 32, 1)>>,
     out_units |-> 1, fitted |-> FALSE, table |-> PredTable(seed)]

\* the hybrid model: a third input meta_item, Dense(64), Dense(32), Dense(1)
HybridModel(maxU, maxI, seed) ==
    [kind |-> "hybrid", inputs |-> <<"user", "item", "meta_item">>,
     layers |-> <<Embedding("user_embedding", maxU + 1, 32, seed),
                  Embedding("item_embedding", maxI + 1, 32, seed),
                  Dense("dense_1", 32 + 32 + 1, 64), Dense("dense_2", 64, 32),
                  Dense("dense_3", 32, 1)>>,
     out_units |-> 1, fitted |-> FALSE, table |-> PredTable(seed)]

NoModel ==
    [kind |-> "none", inputs |-> <<>>, layers |-> <<>>, out_units |-> 0,
     fitted |-> FALSE, table |-> <<>>]

\* model.fit: the parameters become those of some training outcome
Retrained(layer, seed) ==
    [layer EXCEPT !.weights =
        [k \in DOMAIN layer.weights |->
            IF layer.kind = "Embedding"
            THEN [layer.weights[k] EXCEPT !.W = EmbValues(layer.weights[k].rows, seed)]
            ELSE layer.weights[k]]]

Fit(m, seed) ==
    [m EXCEPT !.fitted = TRUE,
              !.table = PredTable(seed),
              !.layers = [k \in DOMAIN m.layers |-> Retrained(m.layers[k], seed)]]

\* concatenation of a sequence of sequences
RECURSIVE Flat(_)
Flat(ss) == IF ss = <<>> THEN <<>> ELSE Head(ss) \o Flat(Tail(ss))

\* model.get_weights(): the weight arrays, layer by layer in build order
get_weights(m) == Flat([k \in DOMAIN m.layers |-> m.layers[k].weights])

\* ------------------------------------------------------- train_test_split
\* ceil(test_size * n) rows for the test part, test_size = 0.2
n_test(n) == (n + TestFifth - 1) \div TestFifth

\* rows of a frame keep the index label of the row they come from
Take(table, idx) == [k \in DOMAIN idx |-> [index |-> idx[k], row |-> table[idx[k]]]]

\* a split that leaves the last test row in the train part as well
train_test_split_overlap(table, perm) ==
    LET n == Len(table)
        t == n_test(n)
    IN <<Take(table, SubSeq(perm, t, n)), Take(table, SubSeq(perm, 1, t))>>

\* train_test_split(all_ratings, test_size=0.2, random_state=0) under the
\* shuffle perm: the first n_test shuffled rows are the test part, the rest
\* the train part; returns <<ratings_train, ratings_test>>
train_test_split(table, perm) ==
    LET n == Len(table)
        t == n_test(n)
    IN <<Take(table, SubSeq(perm, t + 1, n)), Take(table, SubSeq(perm, 1, t))>>

\* frame[col]: the column as a series with the frame's index
Column(frame, col) ==
    [k \in DOMAIN frame |-> [index |-> frame[k].index, value |-> frame[k].row[col]]]

\* the split cell: the two frames and the six series taken from them
SplitOf(table, perm) ==
    LET parts == train_test_split(table, perm)
        ratings_train == parts[1]
        ratings_test == parts[2]
    IN [st |-> "done",
        ratings_train |-> ratings_train,
        ratings_test |-> ratings_test,
        user_id_train |-> Column(ratings_train, "user_id"),
        item_id_train |-> Column(ratings_train, "item_id"),
        rating_train |-> Column(ratings_train, "rating"),
        user_id_test |-> Column(ratings_test, "user_id"),
        item_id_test |-> Column(ratings_test, "item_id"),
        rating_test |-> Column(ratings_test, "rating")]

NoSplit ==
    [st |-> "none", ratings_train |-> <<>>, ratings_test |-> <<>>,
     user_id_train |-> <<>>, item_id_train |-> <<>>, rating_train |-> <<>>,
     user_id_test |-> <<>>, item_id_test |-> <<>>, rating_test |-> <<>>]

\* ---------------------------------------------------------------- recommend
\* list(all_ratings[all_ratings["user_id"]==user_id]["item_id"])
seen_movies(ratings, user_id) ==
    LET rows == SelectSeq(ratings, LAMBDA r : r.user_id = user_id)
    IN [k \in DOMAIN rows |-> rows[k].item_id]

\* range(1, max_item_id) filtered by  x not in seen_movies
candidate_item_ids(ratings, maxI, user_id) ==
    LET seen == Range(seen_movies(ratings, user_id))
    IN SelectSeq(PyRange(1, maxI), LAMBDA x : x \notin seen)

\* model.predict([user, item_ids, items_meta])[:, 0], positions 0..n-1
rating_preds(m, user_id, item_ids) ==
    [p \in 0..(Len(item_ids) - 1) |-> m.table[user_id][item_ids[p + 1]]]

\* np.argsort(v): the positions of v in ascending order of value
argsort(v) ==
    LET n == Cardinality(DOMAIN v)
    IN {o \in [1..n -> 0..(n - 1)] :
          /\ \A a, b \in 1..n : a # b => o[a] # o[b]
          /\ \A a, b \in 1..n : a < b => v[o[a]] <= v[o[b]]}

\* s[:k]: the first k entries, all but the last -k for a negative k
PySliceTo(s, k) ==
    LET n == Len(s)
        stop == IF k >= 0 THEN Min2(k, n) ELSE IF n + k > 0 THEN n + k ELSE 0
    IN SubSeq(s, 1, stop)

\* s[::-1]
Reversed(s) == [k \in DOMAIN s |-> s[Len(s) + 1 - k]]

\* np.argsort(...)[::-1].tolist()[:top_n]
rec_items(order, top_n) == PySliceTo(Reversed(order), top_n)

\* [(items["name"][movie], rating_preds[movie][0]) for movie in rec_items]
\* items["name"][movie] raises KeyError for a label outside the index
recommend_return(preds, rec) ==
    IF \E k \in DOMAIN rec : rec[k] \notin ItemsIndex
    THEN [st |-> "KeyError", list |-> <<>>]
    ELSE [st |-> "ok",
          list |-> [k \in DOMAIN rec |->
                      [label |-> rec[k], name |-> ItemsName(rec[k]),
                       rating |-> preds[rec[k]]]]]

NoReco ==
    [st |-> "none", user_id |-> 0, top_n |-> 0, model_kind |-> "none",
     model_inputs |-> <<>>, model_fitted |-> FALSE, predict_item_ids |-> <<>>,
     list |-> <<>>]

\* one call recommend(user_id, top_n) on the globals all_ratings,
\* max_item_id, items and model
Recommend(user_id, top_n) ==
    LET item_ids == candidate_item_ids(all_ratings, max_item_id, user_id)
        preds == rating_preds(model, user_id, item_ids)
        call == [NoReco EXCEPT !.user_id = user_id, !.top_n = top_n,
                               !.model_kind = model.kind,
                               !.model_inputs = model.inputs,
                               !.model_fitted = model.fitted,
                               !.predict_item_ids = item_ids]
    IN IF item_ids = <<>>
       THEN \* predict on an empty batch: an error or an empty result
            \E st \in {"Error", "ok"} : reco' = [call EXCEPT !.st = st]
       ELSE \E order \in argsort(preds) :
              LET ret == recommend_return(preds, rec_items(order, top_n))
              IN reco' = [call EXCEPT !.st = ret.st, !.list = ret.list]

\* -------------------------------------------------------------- similarity
\* def euclidean_distances(x): return 0.      (a scalar: shape ())
euclidean_distances(x) == [shape |-> <<>>, data |-> <<0>>]

\* def most_similar(idx, top_n=10): idxs = np.array([1,2,3]);
\* return items["name"][idxs]
most_similar(idx, top_n) ==
    LET idxs == <<1, 2, 3>>
    IN [k \in DOMAIN idxs |-> [index |-> idxs[k], name |-> ItemsName(idxs[k])]]

NoSim ==
    [st |-> "none", x |-> <<>>, idx |-> 0, top_n |-> 0,
     dist |-> [shape |-> <<>>, data |-> <<>>], names |-> <<>>]

NoEmbeddings ==
    [st |-> "none",
     user |-> [layer |-> "none", rows |-> 0, shape |-> <<>>, W |-> <<>>],
     item |-> [layer |-> "none", rows |-> 0, shape |-> <<>>, W |-> <<>>]]

\* ------------------------------------------------------ the notebook cells
fsVars == <<zip_file, folder, setup_log>>
dataVars == <<all_ratings, max_user_id, max_item_id>>
kernelVars == <<all_ratings, max_user_id, max_item_id, split, model, weights,
                embeddings, reco, sim>>

\* the ratings files a notebook run reads: recommend(3) needs user 3 to have
\* a row of the user embedding table
NotebookTables ==
    {t \in SampleTables(2, MaxRows) : \E k \in DOMAIN t : t[k].user_id >= RecoUser}

\* a fresh kernel: no global name is bound
FreshKernel ==
    /\ all_ratings = <<>>
    /\ max_user_id = 0
    /\ max_item_id = 0
    /\ split = NoSplit
    /\ model = NoModel
    /\ weights = <<>>
    /\ embeddings = NoEmbeddings
    /\ reco = NoReco
    /\ sim = NoSim

NoLog == [downloaded |-> FALSE, extracted |-> FALSE, successes |-> 0]

\* op.exists(ML_100K_FILENAME)
zip_exists(z) == z # "absent"

\* the file after  if not op.exists(ML_100K_FILENAME): urlretrieve(...)
\* when urlretrieve returns: an existing file is left as it is; a missing
\* file has been written, whole, or truncated when the source delivered a
\* truncated archive (urlretrieve then returns all the same)
zip_after_download(z) == IF zip_exists(z) THEN {z} ELSE {"ok", "partial"}

\* a setup cell that extracts without looking for the folder
extract_always(f) == TRUE

\* if not op.exists(ML_100K_FOLDER): extraction is due
extract_due(f) == ~f

\* cell 1: download the archive if it is missing, extract it if the folder
\* is missing.  urlretrieve may raise and leave nothing or a truncated file,
\* or return and leave a whole or a truncated file; ZipFile raises on a
\* truncated archive.
SetupCell ==
    /\ pc = "setup"
    /\ \/ \* urlretrieve raises
          /\ ~zip_exists(zip_file)
          /\ zip_file' \in {"absent", "partial"}
          /\ folder' = folder
          /\ setup_log' = [setup_log EXCEPT !.downloaded = TRUE, !.extracted = FALSE]
          /\ pc' = "halted"
       \/ \* urlretrieve returns or is skipped
          \E z \in zip_after_download(zip_file) :
             \/ \* ZipFile(...) raises BadZipFile
                /\ extract_due(folder)
                /\ z = "partial"
                /\ zip_file' = z
                /\ folder' = folder
                /\ setup_log' = [setup_log EXCEPT !.downloaded = ~zip_exists(zip_file),
                                                  !.extracted = TRUE]
                /\ pc' = "halted"
             \/ \* the cell completes
                /\ extract_due(folder) => z = "ok"
                /\ zip_file' = z
                /\ folder' = TRUE
                /\ setup_log' = [downloaded |-> ~zip_exists(zip_file),
                                 extracted |-> extract_due(folder),
                                 successes |-> setup_log.successes + 1]
                /\ pc' = "read_ratings"
    /\ UNCHANGED <<runs, kernelVars>>

\* all_ratings = pd.read_csv(.../u.data, ...)
ReadRatingsCell ==
    /\ pc = "read_ratings"
    /\ all_ratings' \in NotebookTables
    /\ pc' = "max_user_id"
    /\ UNCHANGED <<runs, fsVars, max_user_id, max_item_id, split, model, weights,
                   embeddings, reco, sim>>

\* max_user_id = all_ratings['user_id'].max()
MaxUserIdCell ==
    /\ pc = "max_user_id"
    /\ max_user_id' = Max({all_ratings[k].user_id : k \in DOMAIN all_ratings})
    /\ pc' = "max_item_id"
    /\ UNCHANGED <<runs, fsVars, all_ratings, max_item_id, split, model, weights,
                   embeddings, reco, sim>>

\* max_item_id = all_ratings['item_id'].max()
MaxItemIdCell ==
    /\ pc = "max_item_id"
    /\ max_item_id' = Max({all_ratings[k].item_id : k \in DOMAIN all_ratings})
    /\ pc' = "split"
    /\ UNCHANGED <<runs, fsVars, all_ratings, max_user_id, split, model, weights,
                   embeddings, reco, sim>>

\* ratings_train, ratings_test = train_test_split(...) and the six series
SplitCell ==
    /\ pc = "split"
    /\ \E perm \in Perms(Len(all_ratings)) : split' = SplitOf(all_ratings, perm)
    /\ pc' = "build_mf"
    /\ UNCHANGED <<runs, fsVars, dataVars, model, weights, embeddings, reco, sim>>

\* a cell that binds model to a newly built (randomly initialised) model
Build(at, next, m) ==
    /\ pc = at
    /\ model' = m
    /\ pc' = next
    /\ UNCHANGED <<runs, fsVars, dataVars, split, weights, embeddings, reco, sim>>

\* history = model.fit(...): trains the model bound to model
FitCell(at, next) ==
    /\ pc = at
    /\ \E seed \in Seeds : model' = Fit(model, seed)
    /\ pc' = next
    /\ UNCHANGED <<runs, fsVars, dataVars, split, weights, embeddings, reco, sim>>

BuildMFCell ==
    \E seed \in Seeds : Build("build_mf", "fit_mf", MFModel(max_user_id, max_item_id, seed))

FitMFCell == FitCell("fit_mf", "build_deep")

BuildDeepCell ==
    \E seed \in Seeds :
        Build("build_deep", "fit_deep", DeepModel(max_user_id, max_item_id, seed))

\* the exercise cell "has 4 errors": the model has two outputs for one
\* target column, which the framework may reject when fit is called
FitDeepCell ==
    \/ FitCell("fit_deep", "get_weights")
    \/ /\ pc = "fit_deep"
       /\ model.out_units # 1
       /\ pc' = "halted"
       /\ UNCHANGED <<runs, fsVars, kernelVars>>

\* weights = model.get_weights()
GetWeightsCell ==
    /\ pc = "get_weights"
    /\ weights' = get_weights(model)
    /\ pc' = "embeddings"
    /\ UNCHANGED <<runs, fsVars, dataVars, split, model, embeddings, reco, sim>>

\* the two tables taken in the other order
EmbeddingsSwapped(w) == [st |-> "bound", user |-> w[2], item |-> w[1]]

\* user_embeddings = weights[0]; item_embeddings = weights[1]
EmbeddingsOf(w) == [st |-> "bound", user |-> w[1], item |-> w[2]]

EmbeddingsCell ==
    /\ pc = "embeddings"
    /\ embeddings' = EmbeddingsOf(weights)
    /\ pc' = "similarity"
    /\ UNCHANGED <<runs, fsVars, dataVars, split, model, weights, reco, sim>>

\* the cell that defines cosine, euclidean_distances and most_similar and
\* ends with most_similar(181)
SimilarityCell ==
    /\ pc = "similarity"
    /\ sim' = [NoSim EXCEPT !.st = "most_similar", !.idx = SimIdx,
                            !.top_n = SimTopNDefault,
                            !.names = most_similar(SimIdx, SimTopNDefault)]
    /\ pc' = "build_hybrid"
    /\ UNCHANGED <<runs, fsVars, dataVars, split, model, weights, embeddings, reco>>

BuildHybridCell ==
    \E seed \in Seeds :
        Build("build_hybrid", "fit_hybrid", HybridModel(max_user_id, max_item_id, seed))

FitHybridCell == FitCell("fit_hybrid", "recommend")

\* def recommend(...) and the next cell, recommend(3)
RecommendCell ==
    /\ pc = "recommend"
    /\ Recommend(RecoUser, RecoTopNDefault)
    /\ pc' = "done"
    /\ UNCHANGED <<runs, fsVars, dataVars, split, model, weights, embeddings, sim>>

\* Kernel > Restart: every global name is lost, the files stay
Restart ==
    /\ runs < MaxRuns
    /\ runs' = runs + 1
    /\ pc' = "setup"
    /\ all_ratings' = <<>>
    /\ max_user_id' = 0
    /\ max_item_id' = 0
    /\ split' = NoSplit
    /\ model' = NoModel
    /\ weights' = <<>>
    /\ embeddings' = NoEmbeddings
    /\ reco' = NoReco
    /\ sim' = NoSim
    /\ UNCHANGED fsVars

Init ==
    /\ pc = "setup"
    /\ runs = 0
    /\ zip_file \in {"absent", "partial", "ok"}
    /\ folder \in BOOLEAN
    /\ setup_log = NoLog
    /\ FreshKernel

Next ==
    \/ SetupCell
    \/ ReadRatingsCell
    \/ MaxUserIdCell
    \/ MaxItemIdCell
    \/ SplitCell
    \/ BuildMFCell
    \/ FitMFCell
    \/ BuildDeepCell
    \/ FitDeepCell
    \/ GetWeightsCell
    \/ EmbeddingsCell
    \/ SimilarityCell
    \/ BuildHybridCell
    \/ FitHybridCell
    \/ RecommendCell
    \/ Restart

\* the notebook executed top to bottom, with kernel restarts
Spec == Init /\ [][Next]_vars

\* ------------------------------------- recommend called on arbitrary inputs
\* the trained hybrid model with a given table of predictions
TrainedHybrid(maxU, maxI, tbl) ==
    [Fit(HybridModel(maxU, maxI, 0), 0) EXCEPT !.table = tbl]

\* the state after the hybrid model is trained, for every small ratings table
\* and every prediction table that does not depend on the user
InitReco ==
    /\ pc = "recommend"
    /\ runs = 0
    /\ zip_file = "ok"
    /\ folder = TRUE
    /\ setup_log = [NoLog EXCEPT !.successes = 1]
    /\ all_ratings \in RatingTables(RecoMaxRows)
    /\ max_user_id = Max({all_ratings[k].user_id : k \in DOMAIN all_ratings})
    /\ max_item_id = Max({all_ratings[k].item_id : k \in DOMAIN all_ratings})
    /\ split = NoSplit
    /\ \E f \in [Items -> Scores] :
          model = TrainedHybrid(max_user_id, max_item_id, [u \in Users |-> f])
    /\ weights = <<>>
    /\ embeddings = NoEmbeddings
    /\ reco = NoReco
    /\ sim = NoSim

\* recommend(user_id, top_n) for a user of the ratings file; the function
\* changes no global, so one call per state of the globals shows them all
CallRecommend ==
    /\ pc = "recommend"
    /\ reco = NoReco
    /\ \E user_id \in 1..max_user_id, top_n \in (0 - MaxTopN)..MaxTopN :
          Recommend(user_id, top_n)
    /\ UNCHANGED <<pc, runs, fsVars, dataVars, split, model, weights, embeddings, sim>>

SpecReco == InitReco /\ [][CallRecommend]_vars

\* ------------------------- the similarity functions called on arbitrary inputs
InitSim ==
    /\ pc = "similarity"
    /\ runs = 0
    /\ zip_file = "ok"
    /\ folder = TRUE
    /\ setup_log = [NoLog EXCEPT !.successes = 1]
    /\ all_ratings = <<>>
    /\ max_user_id = MaxUser
    /\ max_item_id = NumItems
    /\ split = NoSplit
    /\ model = NoModel
    /\ weights = <<>>
    /\ \E W \in [0..NumItems -> EmbVecs] :
          embeddings =
            [st |-> "bound",
             user |-> [layer |-> "user_embedding", rows |-> MaxUser + 1,
                       shape |-> <<MaxUser + 1, 30>>,
                       W |-> EmbValues(MaxUser + 1, 0)],
             item |-> [layer |-> "item_embedding", rows |-> NumItems + 1,
                       shape |-> <<NumItems + 1, 30>>, W |-> W]]
    /\ reco = NoReco
    /\ sim = NoSim

\* euclidean_distances(x) for a point x of the embedding space
CallEuclideanDistances ==
    /\ pc = "similarity"
    /\ \E x \in EmbVecs :
          sim' = [NoSim EXCEPT !.st = "euclidean", !.x = x,
                               !.dist = euclidean_distances(x)]
    /\ UNCHANGED <<pc, runs, fsVars, dataVars, split, model, weights, embeddings, reco>>

\* most_similar(idx, top_n) for an item idx
CallMostSimilar ==
    /\ pc = "similarity"
    /\ \E idx \in Items, top_n \in 1..MaxTopN :
          sim' = [NoSim EXCEPT !.st = "most_similar", !.idx = idx, !.top_n = top_n,
                               !.names = most_similar(idx, top_n)]
    /\ UNCHANGED <<pc, runs, fsVars, dataVars, split, model, weights, embeddings, reco>>

NextSim == CallEuclideanDistances \/ CallMostSimilar

SpecSim == InitSim /\ [][NextSim]_vars

\* --------------------------------------- the split cell on tables of more rows
InitSplit ==
    /\ pc = "split"
    /\ runs = 0
    /\ zip_file = "ok"
    /\ folder = TRUE
    /\ setup_log = [NoLog EXCEPT !.successes = 1]
    /\ all_ratings \in SampleTables(2, SplitMaxRows)
    /\ max_user_id = Max({all_ratings[k].user_id : k \in DOMAIN all_ratings})
    /\ max_item_id = Max({all_ratings[k].item_id : k \in DOMAIN all_ratings})
    /\ split = NoSplit
    /\ model = NoModel
    /\ weights = <<>>
    /\ embeddings = NoEmbeddings
    /\ reco = NoReco
    /\ sim = NoSim

SpecSplit == InitSplit /\ [][SplitCell]_vars

\* ==================================================================== claims
\* The definitions below state the claims; SeenBy and UnseenBy are the sets
\* the claims speak of, not values the notebook computes.
\* the items a user has rated
SeenBy(user_id) ==
    {all_ratings[j].item_id : j \in {k \in DOMAIN all_ratings :
                                        all_ratings[k].user_id = user_id}}

\* the items of 1..max_item_id a user has not rated
UnseenBy(user_id) == (1..max_item_id) \ SeenBy(user_id)

\* C1: no item returned by recommend(user_id, top_n) is an item the user has
\* already rated: no returned name is the name of an item_id that occurs in
\* all_ratings together with user_id.
C1_RecommendExcludesSeen ==
    reco.st = "ok" =>
        \A k \in DOMAIN reco.list :
            \A i \in SeenBy(reco.user_id) : reco.list[k].name # ItemsName(i)

\* C2: the list recommend returns is in non-increasing order of predicted
\* rating and its entries are the top_n unseen items by predicted rating:
\* each entry is an unseen item with its predicted rating, and no unseen item
\* left out has a strictly higher predicted rating than a returned one.
C2_RecommendTopNUnseen ==
    (reco.st = "ok" /\ reco.top_n >= 0) =>
        LET unseen == UnseenBy(reco.user_id)
            pred(i) == model.table[reco.user_id][i]
            got == {reco.list[k].label : k \in DOMAIN reco.list}
        IN /\ Len(reco.list) = Min2(reco.top_n, Cardinality(unseen))
           /\ Cardinality(got) = Len(reco.list)
           /\ \A k \in DOMAIN reco.list :
                 /\ reco.list[k].label \in unseen
                 /\ reco.list[k].name = ItemsName(reco.list[k].label)
                 /\ reco.list[k].rating = pred(reco.list[k].label)
           /\ \A a, b \in DOMAIN reco.list :
                 a < b => reco.list[a].rating >= reco.list[b].rating
           /\ \A i \in unseen \ got : \A j \in got : pred(i) <= pred(j)

\* C3: recommend computes a predicted rating for all items: every item id of
\* 1..max_item_id the user has not rated is in the candidate set passed to
\* model.predict, and no other item id is.
C3_PredictCoversAllUnseen ==
    reco.st # "none" => Range(reco.predict_item_ids) = UnseenBy(reco.user_id)

\* squared euclidean distance of two embedding vectors
SqDist(a, b) == (a[1] - b[1]) * (a[1] - b[1]) + (a[2] - b[2]) * (a[2] - b[2])

\* C4: most_similar(idx, top_n) returns the names of the top_n items whose
\* embedding has the lowest euclidean distance to the embedding of item idx;
\* the result has top_n entries.
C4_MostSimilarNearest ==
    sim.st = "most_similar" =>
        LET W == embeddings.item.W
            got == {sim.names[k].index : k \in DOMAIN sim.names}
        IN /\ Len(sim.names) = sim.top_n
           /\ Cardinality(got) = sim.top_n
           /\ \A k \in DOMAIN sim.names : sim.names[k].name = ItemsName(sim.names[k].index)
           /\ \A r \in got : \A q \in Items \ got :
                 SqDist(W[r], W[sim.idx]) <= SqDist(W[q], W[sim.idx])

\* C5: euclidean_distances(x) returns one distance per row of
\* item_embeddings, and the distance is 0 exactly for the rows equal to x.
C5_EuclideanDistancesPerRow ==
    sim.st = "euclidean" =>
        /\ sim.dist.shape = <<embeddings.item.rows>>
        /\ \A r \in 0..(embeddings.item.rows - 1) :
              (sim.dist.data[r + 1] = 0) <=> (embeddings.item.W[r] = sim.x)

\* C6: when the cells are executed top to bottom, every call of recommend
\* happens after the hybrid model has been trained: recommend calls predict
\* on the model bound to the name model, which is then the three-input
\* (user, item, meta_item) model and has been fitted; never a two-input model.
C6_RecommendAfterHybridFit ==
    /\ pc = "recommend" =>
          /\ model.kind = "hybrid"
          /\ model.inputs = <<"user", "item", "meta_item">>
          /\ model.fitted
    /\ reco.st # "none" =>
          /\ reco.model_kind = "hybrid"
          /\ reco.model_inputs = <<"user", "item", "meta_item">>
          /\ reco.model_fitted
          /\ model.kind = reco.model_kind

C6_Witness == pc = "done" /\ reco.st \in {"ok", "KeyError"} /\ reco.user_id = RecoUser

\* a step that executes the setup cell
SetupStep == pc = "setup" /\ pc' # "setup"

\* C7: the setup cell downloads ml-100k.zip only if no file of that name
\* exists and extracts it only if the folder ml-100k does not exist; executed
\* again after it has completed once, it downloads nothing, extracts nothing
\* and leaves the file system unchanged.
C7_SetupIdempotent ==
    [][SetupStep =>
         /\ (setup_log'.downloaded \/ zip_file' # zip_file) => zip_file = "absent"
         /\ (setup_log'.extracted \/ folder' # folder) => ~folder
         /\ (setup_log.successes > 0 /\ pc' = "read_ratings") =>
               /\ ~setup_log'.downloaded
               /\ ~setup_log'.extracted
               /\ zip_file' = zip_file
               /\ folder' = folder]_vars

C7_Witness ==
    /\ setup_log.successes = 2
    /\ pc = "read_ratings"
    /\ ~setup_log.downloaded
    /\ ~setup_log.extracted

\* C8: the split partitions the ratings: every row of all_ratings is in
\* exactly one of ratings_train and ratings_test, the test part holds 20% of
\* the rows (rounded up to a whole row), and at every position the three
\* train series (and the three test series) hold the values of one row.
C8_SplitPartitions ==
    split.st = "done" =>
        LET n == Len(all_ratings)
            tr == split.ratings_train
            te == split.ratings_test
            Aligned(frame, u, i, r) ==
                /\ DOMAIN u = DOMAIN frame /\ DOMAIN i = DOMAIN frame
                /\ DOMAIN r = DOMAIN frame
                /\ \A k \in DOMAIN frame :
                      LET j == frame[k].index
                      IN /\ u[k] = [index |-> j, value |-> all_ratings[j].user_id]
                         /\ i[k] = [index |-> j, value |-> all_ratings[j].item_id]
                         /\ r[k] = [index |-> j, value |-> all_ratings[j].rating]
        IN /\ \A j \in 1..n :
                 Cardinality({k \in DOMAIN tr : tr[k].index = j})
                   + Cardinality({k \in DOMAIN te : te[k].index = j}) = 1
           /\ \A k \in DOMAIN tr : tr[k].index \in 1..n /\ tr[k].row = all_ratings[tr[k].index]
           /\ \A k \in DOMAIN te : te[k].index \in 1..n /\ te[k].row = all_ratings[te[k].index]
           /\ TestFifth * Len(te) >= n
           /\ TestFifth * (Len(te) - 1) < n
           /\ Aligned(tr, split.user_id_train, split.item_id_train, split.rating_train)
           /\ Aligned(te, split.user_id_test, split.item_id_test, split.rating_test)

C8_Witness ==
    /\ split.st = "done"
    /\ Len(all_ratings) = TestFifth
    /\ Len(split.ratings_test) = 1
    /\ Len(split.user_id_train) = TestFifth - 1

\* C9: the weights come in the order the layers were built: weights[0] is
\* the user embedding table and weights[1] the item embedding table of the
\* trained deep two-input model, so user_embeddings has max_user_id + 1 rows,
\* item_embeddings has max_item_id + 1 rows and item_embeddings[i] is the
\* vector of item id i.
C9_EmbeddingsInBuildOrder ==
    embeddings.st = "bound" =>
        /\ embeddings.user.layer = "user_embedding"
        /\ embeddings.user.rows = max_user_id + 1
        /\ embeddings.user.shape[1] = max_user_id + 1
        /\ embeddings.item.shape[1] = max_item_id + 1
        /\ DOMAIN embeddings.user.W = 0..max_user_id
        /\ embeddings.item.layer = "item_embedding"
        /\ embeddings.item.rows = max_item_id + 1
        /\ DOMAIN embeddings.item.W = 0..max_item_id
        /\ embeddings.user = weights[1]
        /\ embeddings.item = weights[2]
        /\ pc = "similarity" =>
              /\ model.kind = "deep"
              /\ model.inputs = <<"user", "item">>
              /\ model.fitted
              /\ embeddings.user = model.layers[1].weights[1]
              /\ embeddings.item = model.layers[2].weights[1]
              /\ \A i \in 1..max_item_id :
                    embeddings.item.W[i] = model.layers[2].weights[1].W[i]

C9_Witness ==
    /\ pc = "similarity"
    /\ embeddings.st = "bound"
    /\ max_item_id # max_user_id

====
